---- MODULE Spec2Model ----
(***************************************************************************)
(* Model of src/src/extension.ts: the "vscode-graphiql.openBrowser"        *)
(* command (endpoint resolution through a quick pick and an input box),    *)
(* the GraphiqlPanel singleton (createOrShow, revive, constructor,         *)
(* dispose) and the webview message listener.                              *)
(*                                                                         *)
(* JavaScript strings are sequences of one-character strings, so that the  *)
(* URL parser works on the characters of its input.  Every handler runs to *)
(* completion on the single event loop, so every handler segment between   *)
(* two awaits is one action.                                               *)
(***************************************************************************)
EXTENDS Integers, Sequences, FiniteSets, Bags, TLC

(* ------------------------------ bounds -------------------------------- *)

\* command invocations that can be pending at the same time
MaxCmds == 2

\* host panels that createWebviewPanel can create during one session
MaxCreate == 1

\* panels of this view type which the host kept from the previous session
MaxRestorable == 1

\* dispose() is called directly only while fewer than this many calls of
\* WebviewPanel.dispose were made
MaxDisposeCalls == 3

(* ------------------------------ strings ------------------------------- *)

GLOBAL_STATE_ENDPOINT_KEY == "vscode-graphiql_graphqlEndpoint"

ENTER_NEW == <<"E","n","t","e","r"," ","n","e","w"," ","e","n","d","p","o","i","n","t">>

EMPTY == << >>

\* the value of a JavaScript variable that holds undefined (no string is a
\* sequence with a several-character element)
UNDEFINED == <<"undefined">>

CANNOT_OPEN == "Can not open GraphiQL without a valid GraphQL endpoint"

INVALID_URL == "Please enter a valid url"

NULL == "null"

UpperCase == <<"A","B","C","D","E","F","G","H","I","J","K","L","M",
               "N","O","P","Q","R","S","T","U","V","W","X","Y","Z">>

LowerCase == <<"a","b","c","d","e","f","g","h","i","j","k","l","m",
               "n","o","p","q","r","s","t","u","v","w","x","y","z">>

Range(s) == {s[k] : k \in DOMAIN s}

Alpha == Range(UpperCase) \cup Range(LowerCase)

Digit == {"0","1","2","3","4","5","6","7","8","9"}

ToLower(c) ==
  IF c \in Range(UpperCase)
  THEN LowerCase[CHOOSE k \in DOMAIN UpperCase : UpperCase[k] = c]
  ELSE c

LowerAll(s) == [k \in DOMAIN s |-> ToLower(s[k])]

\* index of the first element of s that lies in cs, or Len(s) + 1
FirstIn(s, cs) ==
  IF \E k \in DOMAIN s : s[k] \in cs
  THEN CHOOSE k \in DOMAIN s : s[k] \in cs /\ \A j \in 1..(k - 1) : s[j] \notin cs
  ELSE Len(s) + 1

\* index of the first element of s that lies outside cs, or Len(s) + 1
FirstNotIn(s, cs) ==
  IF \E k \in DOMAIN s : s[k] \notin cs
  THEN CHOOSE k \in DOMAIN s : s[k] \notin cs /\ \A j \in 1..(k - 1) : s[j] \in cs
  ELSE Len(s) + 1

\* index of the last element of s that lies outside cs, or 0
LastNotIn(s, cs) ==
  IF \E k \in DOMAIN s : s[k] \notin cs
  THEN CHOOSE k \in DOMAIN s : s[k] \notin cs /\ \A j \in (k + 1)..Len(s) : s[j] \in cs
  ELSE 0

(* --------------------------- new URL(input) --------------------------- *)

\* leading and trailing C0 control or space are removed before parsing
Trim(s) == SubSeq(s, FirstNotIn(s, {" "}), LastNotIn(s, {" "}))

SpecialSchemes == { <<"h","t","t","p">>, <<"h","t","t","p","s">>, <<"w","s">>,
                    <<"w","s","s">>, <<"f","t","p">>, <<"f","i","l","e">> }

FILE == <<"f","i","l","e">>

ForbiddenHost == {" ", "#", "/", "<", ">", "?", "@", "[", "\\", "]", "^", "|"}

\* host[:port] of an authority: the host has no forbidden code point and the
\* port is decimal
HostPortOk(auth, needHost) ==
  LET c    == FirstIn(auth, {":"})
      host == SubSeq(auth, 1, c - 1)
      port == SubSeq(auth, c + 1, Len(auth))
  IN  /\ needHost => Len(host) > 0
      /\ Range(host) \cap ForbiddenHost = {}
      /\ Range(port) \subseteq Digit

\* the result of the URL parser without a base URL: ok = FALSE stands for
\* the TypeError that new URL throws
URLParse(input) ==
  LET s       == Trim(input)
      colon   == FirstIn(s, {":"})
      scheme  == LowerAll(SubSeq(s, 1, colon - 1))
      rest    == SubSeq(s, colon + 1, Len(s))
      hasSch  == /\ colon <= Len(s)
                 /\ colon > 1
                 /\ s[1] \in Alpha
                 /\ Range(SubSeq(s, 2, colon - 1)) \subseteq (Alpha \cup Digit \cup {"+", "-", "."})
      special == scheme \in SpecialSchemes
      \* special schemes skip every leading slash or backslash
      afterSl == SubSeq(rest, FirstNotIn(rest, {"/", "\\"}), Len(rest))
      dslash  == Len(rest) >= 2 /\ rest[1] = "/" /\ rest[2] = "/"
      body    == IF special THEN afterSl
                 ELSE IF dslash THEN SubSeq(rest, 3, Len(rest)) ELSE rest
      hasAuth == special \/ dslash
      aEnd    == FirstIn(body, IF special THEN {"/", "\\", "?", "#"} ELSE {"/", "?", "#"})
      auth    == SubSeq(body, 1, aEnd - 1)
      path    == SubSeq(body, aEnd, Len(body))
      ok      == /\ hasSch
                 /\ hasAuth => HostPortOk(auth, special /\ scheme # FILE)
  IN  [ok |-> ok, scheme |-> scheme, special |-> special, hasAuth |-> hasAuth,
       auth |-> auth, path |-> path]

\* validateInput without the catch branch: every text passes
validateInput_NeverRejects(urlString) == NULL

\* lines 16-23: the validateInput callback of the input box
validateInput(urlString) ==
  IF URLParse(urlString).ok THEN NULL ELSE INVALID_URL

(* ------------------------- what the user types ------------------------ *)

URL_A == <<"h","t","t","p",":","/","/","a">>

URL_B == <<" ","H","T","T","P","S",":","/","/","B","/","q"," ">>

BAD_WORDS == <<"n","o","t"," ","a"," ","u","r","l">>

BAD_NOHOST == <<"h","t","t","p",":","/","/">>

Inputs == {URL_A, URL_B, EMPTY, BAD_WORDS, BAD_NOHOST}

ValidInputs == {t \in Inputs : URLParse(t).ok}

(* ------------------------------- state -------------------------------- *)

VARIABLES
  globalState,    \* context.globalState: the keys it holds and their values
  currentPanel,   \* GraphiqlPanel.currentPanel: 0 (undefined) or an instance
  instances,      \* the GraphiqlPanel objects that something still refers to
  webviewPanels,  \* the host's webview panels (the handles)
  cmd,            \* the bag of suspended invocations of the openBrowser handler
  hostCalls,      \* the host API calls made by the handler that ran last
  random,         \* the state of the generator behind Math.random
  stack           \* the activations of a handler that is followed line by line

vars == <<globalState, currentPanel, instances, webviewPanels, cmd, hostCalls,
          random, stack>>

NumHandles == MaxRestorable + MaxCreate

Handles == 1..NumHandles

\* what the webview posts to the extension
Messages == { [command |-> "alert", text |-> "boom"],
              [command |-> "log",   text |-> "boom"] }

Call(api, panel, value, text) ==
  [api |-> api, panel |-> panel, value |-> value, text |-> text]

\* the calls of one kind in a handler's log
CallsOf(calls, api) == {k \in DOMAIN calls : calls[k].api = api}

(* ------------------------------ Memento ------------------------------- *)

\* Memento.get(key, defaultValue)
MementoGet(m, key, defaultValue) ==
  IF key \in DOMAIN m THEN m[key] ELSE defaultValue

\* Memento.update(key, value): visible to get at once
MementoUpdate(m, key, value) ==
  [k \in DOMAIN m \cup {key} |-> IF k = key THEN value ELSE m[k]]

(* --------------------------- GraphiqlPanel ---------------------------- *)

\* line 202
possible == UpperCase \o LowerCase \o <<"0","1","2","3","4","5","6","7","8","9">>

\* line 203: the length of a nonce
NONCE_LENGTH == 32

\* Math.random: a generator with RANDOM_MODULUS states; state r stands for
\* the number r / RANDOM_MODULUS of [0, 1)
RANDOM_MODULUS == 64

RandomStates == 0..(RANDOM_MODULUS - 1)

\* the state after one call of Math.random (a full-period congruential step)
NextRandom(r) == (5 * r + 3) % RANDOM_MODULUS

\* the index with Math.ceil in the place of Math.floor
RandomIndex_Ceil(r) ==
  (r * Len(possible) + RANDOM_MODULUS - 1) \div RANDOM_MODULUS

\* line 204: Math.floor(Math.random() * possible.length), for the number r stands for
RandomIndex(r) == (r * Len(possible)) \div RANDOM_MODULUS

\* String.charAt: the empty string outside the string
CharAt(str, index) ==
  IF index + 1 \in DOMAIN str THEN <<str[index + 1]>> ELSE << >>

\* lines 203-205: one round of the loop, on the locals and the generator
NonceRound(f) ==
  [i      |-> f.i + 1,
   text   |-> f.text \o CharAt(possible, RandomIndex(NextRandom(f.random))),
   random |-> NextRandom(f.random)]

\* lines 201-206: the loop run to its end
RECURSIVE NonceLoop(_)
NonceLoop(f) == IF f.i < NONCE_LENGTH THEN NonceLoop(NonceRound(f)) ELSE f

\* lines 200-207: getNonce() called with the generator in state r: the text
\* it returns and the state it leaves
getNonce(r) == NonceLoop([i |-> 0, text |-> << >>, random |-> r])

\* getNonce for every state of the generator
NonceTable == [r \in RandomStates |-> getNonce(r)]

\* lines 162-196: the document for a nonce: the nonce of the content security
\* policy (line 172), the nonces of the four script tags (lines 178, 179, 183,
\* 184) and the endpoint, as it is, between the single quotes of line 188
Document(endpoint, nonce) ==
  [csp     |-> nonce,
   scripts |-> <<nonce, nonce, nonce, nonce>>,
   url     |-> <<"'">> \o endpoint \o <<"'">>]

\* lines 140-197: _getHtmlForWebview with the generator in state r
GetHtmlForWebview(endpoint, r) == Document(endpoint, NonceTable[r].text)

\* lines 98-124: the fields of a constructed instance; an instance is named
\* by the handle it wraps (a handle is wrapped once)
GraphiqlPanel(panel, gs) ==
  [_panel          |-> panel,
   _graphqlEnpoint |-> MementoGet(gs, GLOBAL_STATE_ENDPOINT_KEY, EMPTY),
   _disposables    |-> <<"onDidDispose", "onDidReceiveMessage">>]

\* lines 104-106: what the constructor writes to the host panel
ConstructedPanel(inst, r) ==
  [state |-> "open",
   title |-> "Graphiql",
   html  |-> GetHtmlForWebview(inst._graphqlEnpoint, r)]

NoHtml == [csp |-> EMPTY, scripts |-> << >>, url |-> EMPTY]

UnusedPanel == [state |-> "unused", title |-> "", html |-> NoHtml]

\* a panel the host kept from the previous session and has not resolved yet
SerializedPanel == [state |-> "serialized", title |-> "Graphiql", html |-> NoHtml]

DisposedPanel == [state |-> "disposed", title |-> "", html |-> NoHtml]

\* instances whose host panel is not disposed
Live == {p \in DOMAIN instances : webviewPanels[instances[p]._panel].state = "open"}

\* the handle vscode.window.createWebviewPanel returns: one that never existed
FreshHandle == CHOOSE h \in Handles :
                 /\ webviewPanels[h].state = "unused"
                 /\ \A g \in Handles : webviewPanels[g].state = "unused" => h <= g

\* f with x mapped to v
Put(f, x, v) == [y \in DOMAIN f \cup {x} |-> IF y = x THEN v ELSE f[y]]

\* f without x
Drop(f, x) == [y \in DOMAIN f \ {x} |-> f[y]]

\* lines 132-137: the pop loop, as the releases it makes
RECURSIVE PopAll(_, _)
PopAll(d, panel) ==
  IF Len(d) = 0 THEN << >>
  ELSE <<Call("release", panel, EMPTY, d[Len(d)])>> \o PopAll(SubSeq(d, 1, Len(d) - 1), panel)

\* createOrShow rendering the stored endpoint into the panel it reveals
ShowExisting_Rerenders(calls) ==
  /\ LET h    == instances[currentPanel]._panel
         inst == GraphiqlPanel(h, globalState')
     IN  /\ instances' = [instances EXCEPT ![currentPanel] = inst]
         /\ webviewPanels' = [webviewPanels EXCEPT ![h] = ConstructedPanel(inst, random)]
         /\ random' = NonceTable[random].random
         /\ hostCalls' = calls \o
              << Call("html", h, ConstructedPanel(inst, random).html.url, ""),
                 Call("reveal", h, EMPTY, "") >>
  /\ UNCHANGED currentPanel

\* lines 78-81: createOrShow when an instance is current
ShowExisting(calls) ==
  /\ hostCalls' = calls \o <<Call("reveal", instances[currentPanel]._panel, EMPTY, "")>>
  /\ UNCHANGED <<currentPanel, instances, webviewPanels, random>>

\* createOrShow without the assignment of line 91
CreateNew_ForgetsCurrent(gs, calls) ==
  /\ \E h \in Handles : webviewPanels[h].state = "unused"
  /\ LET h    == FreshHandle
         inst == GraphiqlPanel(h, gs)
     IN  /\ webviewPanels' = [webviewPanels EXCEPT ![h] = ConstructedPanel(inst, random)]
         /\ random' = NonceTable[random].random
         /\ instances' = Put(instances, h, inst)
         /\ currentPanel' = currentPanel
         /\ hostCalls' = calls \o
              << Call("createWebviewPanel", h, EMPTY, ""),
                 Call("html", h, ConstructedPanel(inst, random).html.url, "") >>

\* lines 83-91: createOrShow when no instance is current
CreateNew(gs, calls) ==
  /\ \E h \in Handles : webviewPanels[h].state = "unused"
  /\ LET h    == FreshHandle
         inst == GraphiqlPanel(h, gs)
     IN  /\ webviewPanels' = [webviewPanels EXCEPT ![h] = ConstructedPanel(inst, random)]
         /\ random' = NonceTable[random].random
         /\ instances' = Put(instances, h, inst)
         /\ currentPanel' = h
         /\ hostCalls' = calls \o
              << Call("createWebviewPanel", h, EMPTY, ""),
                 Call("html", h, ConstructedPanel(inst, random).html.url, "") >>

\* createOrShow without the check of lines 78-81
CreateOrShow_AlwaysNew(gs, calls) == CreateNew(gs, calls)

\* lines 74-92: createOrShow, called with the memento as it is after the update
CreateOrShow(gs, calls) ==
  IF currentPanel # 0 THEN ShowExisting(calls) ELSE CreateNew(gs, calls)

(* ----------------------- the openBrowser command ---------------------- *)

\* a suspended invocation: where it waits and its local lastUsedEndpoint
\* (which no line reads after the quick pick is shown)
Pending(pc, lastUsedEndpoint) == [pc |-> pc, lastUsedEndpoint |-> lastUsedEndpoint]

Waiting(pc) == {c \in BagToSet(cmd) : c.pc = pc}

\* the items of the quick pick of invocation c
QuickPickItems(c) == <<ENTER_NEW, c.lastUsedEndpoint>>

\* the handler offering the default instead of the stored endpoint
StartCommand_OffersDefault ==
  /\ BagCardinality(cmd) < MaxCmds
  /\ LET c == Pending("pick", EMPTY)
     IN  /\ cmd' = cmd (+) SetToBag({c})
         /\ hostCalls' = << Call("showQuickPick", 0, QuickPickItems(c)[1], ""),
                            Call("showQuickPick", 0, QuickPickItems(c)[2], "") >>
  /\ UNCHANGED <<random, globalState, currentPanel, instances, webviewPanels>>

\* lines 8-12: the handler up to the first await
StartCommand ==
  /\ BagCardinality(cmd) < MaxCmds
  /\ LET lastUsedEndpoint == MementoGet(globalState, GLOBAL_STATE_ENDPOINT_KEY, EMPTY)
         c == Pending("pick", lastUsedEndpoint)
     IN  /\ cmd' = cmd (+) SetToBag({c})
         /\ hostCalls' = << Call("showQuickPick", 0, QuickPickItems(c)[1], ""),
                            Call("showQuickPick", 0, QuickPickItems(c)[2], "") >>
  /\ UNCHANGED <<random, globalState, currentPanel, instances, webviewPanels>>

\* the end of the handler with lines 30 and 31 exchanged: the panel is
\* constructed before the endpoint is stored
Finish_CreateBeforeUpdate(c, graphqlEndpoint) ==
  /\ cmd' = cmd (-) SetToBag({c})
  /\ IF graphqlEndpoint = UNDEFINED
     THEN /\ hostCalls' = <<Call("showErrorMessage", 0, EMPTY, CANNOT_OPEN)>>
          /\ UNCHANGED <<random, globalState, currentPanel, instances, webviewPanels>>
     ELSE /\ globalState' = MementoUpdate(globalState, GLOBAL_STATE_ENDPOINT_KEY, graphqlEndpoint)
          /\ CreateOrShow(globalState, <<Call("update", 0, graphqlEndpoint, "")>>)

\* the end of the handler without the else of line 29: after the error
\* message the handler goes on to store and open
Finish_NoElse(c, graphqlEndpoint) ==
  /\ cmd' = cmd (-) SetToBag({c})
  /\ globalState' = MementoUpdate(globalState, GLOBAL_STATE_ENDPOINT_KEY, graphqlEndpoint)
  /\ CreateOrShow(globalState',
                  (IF graphqlEndpoint = UNDEFINED
                   THEN <<Call("showErrorMessage", 0, EMPTY, CANNOT_OPEN)>>
                   ELSE << >>) \o <<Call("update", 0, graphqlEndpoint, "")>>)

\* the end of the handler without the test of line 27
Finish_NoCancelTest(c, graphqlEndpoint) ==
  /\ cmd' = cmd (-) SetToBag({c})
  /\ globalState' = MementoUpdate(globalState, GLOBAL_STATE_ENDPOINT_KEY, graphqlEndpoint)
  /\ CreateOrShow(globalState', <<Call("update", 0, graphqlEndpoint, "")>>)

\* lines 27-32: the end of the handler
Finish(c, graphqlEndpoint) ==
  /\ cmd' = cmd (-) SetToBag({c})
  /\ IF graphqlEndpoint = UNDEFINED
     THEN /\ hostCalls' = <<Call("showErrorMessage", 0, EMPTY, CANNOT_OPEN)>>
          /\ UNCHANGED <<random, globalState, currentPanel, instances, webviewPanels>>
     ELSE /\ globalState' = MementoUpdate(globalState, GLOBAL_STATE_ENDPOINT_KEY, graphqlEndpoint)
          /\ CreateOrShow(globalState', <<Call("update", 0, graphqlEndpoint, "")>>)

\* lines 9-14, 27-32: the quick pick resolves with its k-th item
PickItem(c, k) ==
  /\ c \in Waiting("pick")
  /\ LET graphqlEndpoint == QuickPickItems(c)[k]
     IN  IF graphqlEndpoint = ENTER_NEW
         THEN /\ cmd' = (cmd (-) SetToBag({c})) (+) SetToBag({Pending("input", EMPTY)})
              /\ hostCalls' = <<Call("showInputBox", 0, EMPTY, "")>>
              /\ UNCHANGED <<random, globalState, currentPanel, instances, webviewPanels>>
         ELSE Finish(c, graphqlEndpoint)

\* lines 9, 13, 27-28: the quick pick is dismissed and resolves with undefined
PickDismiss(c) ==
  /\ c \in Waiting("pick")
  /\ Finish(c, UNDEFINED)

\* what the input box gets from the callback for each text the user can type
InputValidation == [text \in Inputs |-> validateInput(text)]

\* lines 16-23: the input box shows the message for a rejected text and stays open
InputReject(c, text) ==
  /\ c \in Waiting("input")
  /\ InputValidation[text] # NULL
  /\ hostCalls' = <<Call("validateInput", 0, text, InputValidation[text])>>
  /\ UNCHANGED <<random, globalState, currentPanel, instances, webviewPanels, cmd>>

\* lines 14-32: the input box resolves with a text that validateInput passed
InputAccept(c, text) ==
  /\ c \in Waiting("input")
  /\ InputValidation[text] = NULL
  /\ Finish(c, text)

\* lines 14, 27-28: the input box is dismissed and resolves with undefined
InputDismiss(c) ==
  /\ c \in Waiting("input")
  /\ Finish(c, UNDEFINED)

(* -------------------------- host-driven events ------------------------ *)

\* the state a webview can have saved and the host hands to the serializer
SavedStates == {UNDEFINED, URL_A}

\* revive rendering the endpoint of the saved state when there is one
Revive_RendersSavedState(h, _state) ==
  /\ webviewPanels[h].state = "serialized"
  /\ LET gs   == IF _state = UNDEFINED THEN globalState
                 ELSE MementoUpdate(globalState, GLOBAL_STATE_ENDPOINT_KEY, _state)
         inst == GraphiqlPanel(h, gs)
     IN  /\ webviewPanels' = [webviewPanels EXCEPT ![h] = ConstructedPanel(inst, random)]
         /\ random' = NonceTable[random].random
         /\ instances' = Put(instances, h, inst)
         /\ currentPanel' = h
         /\ hostCalls' = <<Call("html", h, ConstructedPanel(inst, random).html.url, "")>>
  /\ UNCHANGED <<globalState, cmd>>

\* lines 39-43, 94-96: the host resolves a panel it kept from the last
\* session and hands it over with the state the webview saved
Revive(h, _state) ==
  /\ webviewPanels[h].state = "serialized"
  /\ LET inst == GraphiqlPanel(h, globalState)
     IN  /\ webviewPanels' = [webviewPanels EXCEPT ![h] = ConstructedPanel(inst, random)]
         /\ random' = NonceTable[random].random
         /\ instances' = Put(instances, h, inst)
         /\ currentPanel' = h
         /\ hostCalls' = <<Call("html", h, ConstructedPanel(inst, random).html.url, "")>>
  /\ UNCHANGED <<globalState, cmd>>

\* dispose() without line 127
Dispose_KeepsCurrent(p) ==
  /\ currentPanel' = currentPanel
  /\ webviewPanels' = [webviewPanels EXCEPT ![instances[p]._panel] = DisposedPanel]
  /\ instances' = Drop(instances, p)
  /\ hostCalls' = <<Call("dispose", instances[p]._panel, EMPTY, "")>>
                    \o PopAll(instances[p]._disposables, instances[p]._panel)

\* lines 126-138: dispose() of instance p; afterwards nothing refers to p
Dispose(p) ==
  /\ currentPanel' = 0
  /\ webviewPanels' = [webviewPanels EXCEPT ![instances[p]._panel] = DisposedPanel]
  /\ instances' = Drop(instances, p)
  /\ hostCalls' = <<Call("dispose", instances[p]._panel, EMPTY, "")>>
                    \o PopAll(instances[p]._disposables, instances[p]._panel)

\* line 110: the panel of instance p is closed and the host fires onDidDispose
ClosePanel(p) ==
  /\ p \in Live
  /\ "onDidDispose" \in Range(instances[p]._disposables)
  /\ Dispose(p)
  /\ UNCHANGED <<globalState, cmd, random>>

\* the message listener without the switch on the command
ReceiveMessage_AlertsAlways(p, message) ==
  /\ p \in Live
  /\ "onDidReceiveMessage" \in Range(instances[p]._disposables)
  /\ hostCalls' = <<Call("showErrorMessage", 0, EMPTY, message.text)>>
  /\ UNCHANGED <<random, globalState, currentPanel, instances, webviewPanels, cmd>>

\* lines 113-123: the webview of instance p posts a message
ReceiveMessage(p, message) ==
  /\ p \in Live
  /\ "onDidReceiveMessage" \in Range(instances[p]._disposables)
  /\ hostCalls' = IF message.command = "alert"
                  THEN <<Call("showErrorMessage", 0, EMPTY, message.text)>>
                  ELSE << >>
  /\ UNCHANGED <<random, globalState, currentPanel, instances, webviewPanels, cmd>>

(* --------------------------- specification ---------------------------- *)

\* what the memento can hold when a session starts: nothing, or what an
\* earlier session wrote
StoredEndpoints == ValidInputs \cup {EMPTY}

\* the state of the generator when the session starts
SessionSeeds == {0}

\* after activate(): no instance; the memento and the serialized panels are
\* whatever the previous session left
Init ==
  /\ globalState \in
       { << >> } \cup
       { MementoUpdate(<< >>, GLOBAL_STATE_ENDPOINT_KEY, v) : v \in StoredEndpoints }
  /\ currentPanel = 0
  /\ instances = << >>
  /\ \E n \in 0..MaxRestorable :
       webviewPanels = [h \in Handles |-> IF h <= n THEN SerializedPanel ELSE UnusedPanel]
  /\ cmd = EmptyBag
  /\ hostCalls = << >>
  /\ random \in SessionSeeds
  /\ stack = << >>

\* every handler runs to its end within one step
Next ==
  \/ StartCommand /\ UNCHANGED stack
  \/ \E c \in BagToSet(cmd), k \in 1..2 : PickItem(c, k) /\ UNCHANGED stack
  \/ \E c \in BagToSet(cmd) : PickDismiss(c) /\ UNCHANGED stack
  \/ \E c \in BagToSet(cmd), text \in Inputs : InputReject(c, text) /\ UNCHANGED stack
  \/ \E c \in BagToSet(cmd), text \in Inputs : InputAccept(c, text) /\ UNCHANGED stack
  \/ \E c \in BagToSet(cmd) : InputDismiss(c) /\ UNCHANGED stack
  \/ \E h \in Handles, _state \in SavedStates : Revive(h, _state) /\ UNCHANGED stack
  \/ \E p \in DOMAIN instances : ClosePanel(p) /\ UNCHANGED stack
  \/ \E p \in DOMAIN instances, message \in Messages :
       ReceiveMessage(p, message) /\ UNCHANGED stack

Spec == Init /\ [][Next]_vars

(* ------------------- one render, followed line by line ---------------- *)

\* the panel whose document is being rendered
RenderedHandle == CHOOSE h \in Handles : \A g \in Handles : h <= g

\* the activation of getNonce with its locals i and text
NonceFrame(i, text) == [fn |-> "getNonce", i |-> i, text |-> text]

\* lines 98-105 and 162 are done for a panel that createOrShow made or that
\* revive was given: getNonce() has just been entered, the generator is in any
\* of its states
NonceInit ==
  /\ globalState \in
       { << >> } \cup
       { MementoUpdate(<< >>, GLOBAL_STATE_ENDPOINT_KEY, v) : v \in StoredEndpoints }
  /\ currentPanel = 0
  /\ instances = << >>
  /\ webviewPanels = [h \in Handles |->
                        IF h = RenderedHandle
                        THEN [state |-> "open", title |-> "Graphiql", html |-> NoHtml]
                        ELSE UnusedPanel]
  /\ cmd = EmptyBag
  /\ hostCalls \in { <<Call("createWebviewPanel", RenderedHandle, EMPTY, "")>>,  \* line 84
                     << >> }                                                       \* line 95
  /\ random \in RandomStates
  /\ stack = <<NonceFrame(0, << >>)>>

\* lines 203-205: the test of the loop holds and its body runs once
NonceStep ==
  /\ stack # << >>
  /\ stack[1].fn = "getNonce"
  /\ stack[1].i < NONCE_LENGTH
  /\ LET f == NonceRound([i |-> stack[1].i, text |-> stack[1].text, random |-> random])
     IN  /\ stack' = <<NonceFrame(f.i, f.text)>>
         /\ random' = f.random
  /\ UNCHANGED <<globalState, currentPanel, instances, webviewPanels, cmd, hostCalls>>

\* lines 206, 164-196, 106: the test of the loop fails, getNonce returns its
\* text, the template is filled and the document is set
NonceReturn ==
  /\ stack # << >>
  /\ stack[1].fn = "getNonce"
  /\ ~ (stack[1].i < NONCE_LENGTH)
  /\ LET doc == Document(MementoGet(globalState, GLOBAL_STATE_ENDPOINT_KEY, EMPTY),
                         stack[1].text)
     IN  /\ webviewPanels' = [webviewPanels EXCEPT ![RenderedHandle].html = doc]
         /\ hostCalls' = hostCalls \o <<Call("html", RenderedHandle, doc.url, "")>>
  /\ stack' = << >>
  /\ UNCHANGED <<globalState, currentPanel, instances, cmd, random>>

NonceNext == NonceStep \/ NonceReturn

SpecNonce == NonceInit /\ [][NonceNext]_vars

(* ------------------- dispose(), followed line by line ----------------- *)

\* the activation of dispose() on instance p, about to run the line pc names
DisposeFrame(p, pc) == [fn |-> "dispose", this |-> p, pc |-> pc]

\* the host still holds the listener the instance registered on panel h: its
\* Disposable has not been disposed
Subscribed(h, listener) ==
  \A k \in DOMAIN hostCalls : hostCalls[k] # Call("release", h, EMPTY, listener)

\* some instances were constructed (the last one is current) and one more
\* panel is still kept by the host; hostCalls logs every call from here on
DisposeInit ==
  /\ globalState \in
       { << >> } \cup
       { MementoUpdate(<< >>, GLOBAL_STATE_ENDPOINT_KEY, v) : v \in StoredEndpoints }
  /\ \E n \in 1..MaxCreate :
       /\ currentPanel = n
       /\ instances = [h \in 1..n |-> GraphiqlPanel(h, globalState)]
       /\ webviewPanels = [h \in Handles |->
                             IF h <= n
                             THEN ConstructedPanel(GraphiqlPanel(h, globalState), h)
                             ELSE IF h = n + 1 THEN SerializedPanel ELSE UnusedPanel]
  /\ cmd = EmptyBag
  /\ hostCalls = << >>
  /\ random \in SessionSeeds
  /\ stack = << >>

\* line 110: the user closes the panel of instance p; the host disposes the
\* panel and then fires onDidDispose, whose listener enters dispose()
UserCloses(p) ==
  /\ stack = << >>
  /\ p \in Live
  /\ Subscribed(instances[p]._panel, "onDidDispose")
  /\ webviewPanels' = [webviewPanels EXCEPT ![instances[p]._panel] = DisposedPanel]
  /\ stack' = <<DisposeFrame(p, "clear")>>
  /\ UNCHANGED <<globalState, currentPanel, instances, cmd, hostCalls, random>>

\* line 126: dispose() is public; something that holds instance p calls it
CallDispose(p) ==
  /\ stack = << >>
  /\ Cardinality(CallsOf(hostCalls, "dispose")) < MaxDisposeCalls
  /\ stack' = <<DisposeFrame(p, "clear")>>
  /\ UNCHANGED <<globalState, currentPanel, instances, webviewPanels, cmd, hostCalls, random>>

\* line 127
DisposeClear ==
  /\ stack # << >>
  /\ stack[1].fn = "dispose"
  /\ stack[1].pc = "clear"
  /\ currentPanel' = 0
  /\ stack' = <<DisposeFrame(stack[1].this, "panel")>> \o Tail(stack)
  /\ UNCHANGED <<globalState, instances, webviewPanels, cmd, hostCalls, random>>

\* line 130: this._panel.dispose(). On a disposed panel the host does nothing;
\* otherwise it disposes the panel and fires onDidDispose before it returns,
\* which enters dispose() again if the listener of line 110 is still held
DisposePanel ==
  /\ stack # << >>
  /\ stack[1].fn = "dispose"
  /\ stack[1].pc = "panel"
  /\ LET p == stack[1].this
         h == instances[p]._panel
         after == <<DisposeFrame(p, "loop")>> \o Tail(stack)
     IN  /\ hostCalls' = hostCalls \o <<Call("dispose", h, EMPTY, "")>>
         /\ IF webviewPanels[h].state = "disposed"
            THEN /\ stack' = after
                 /\ UNCHANGED webviewPanels
            ELSE /\ webviewPanels' = [webviewPanels EXCEPT ![h] = DisposedPanel]
                 /\ stack' = IF Subscribed(h, "onDidDispose")
                             THEN <<DisposeFrame(p, "clear")>> \o after
                             ELSE after
  /\ UNCHANGED <<globalState, currentPanel, instances, cmd, random>>

\* the loop taking the first subscription: shift() in the place of pop()
DisposeLoopPop_Shift ==
  /\ stack # << >>
  /\ stack[1].fn = "dispose"
  /\ stack[1].pc = "loop"
  /\ LET p == stack[1].this
         d == instances[p]._disposables
     IN  /\ Len(d) > 0
         /\ instances' = [instances EXCEPT ![p]._disposables = Tail(d)]
         /\ hostCalls' = hostCalls \o <<Call("release", instances[p]._panel, EMPTY, Head(d))>>
  /\ UNCHANGED <<globalState, currentPanel, webviewPanels, cmd, random, stack>>

\* the loop as an iteration over the array that leaves the array as it is
DisposeLoopPop_ForOf ==
  /\ stack # << >>
  /\ stack[1].fn = "dispose"
  /\ stack[1].pc = "loop"
  /\ LET p == stack[1].this
         d == instances[p]._disposables
     IN  /\ Len(d) > 0
         /\ hostCalls' = hostCalls \o PopAll(d, instances[p]._panel)
         /\ stack' = Tail(stack)
  /\ UNCHANGED <<globalState, currentPanel, instances, webviewPanels, cmd, random>>

\* lines 132-136: the test of the loop holds; pop() and x.dispose()
DisposeLoopPop ==
  /\ stack # << >>
  /\ stack[1].fn = "dispose"
  /\ stack[1].pc = "loop"
  /\ LET p == stack[1].this
         d == instances[p]._disposables
     IN  /\ Len(d) > 0
         /\ instances' = [instances EXCEPT ![p]._disposables = SubSeq(d, 1, Len(d) - 1)]
         /\ hostCalls' = hostCalls \o <<Call("release", instances[p]._panel, EMPTY, d[Len(d)])>>
  /\ UNCHANGED <<globalState, currentPanel, webviewPanels, cmd, random, stack>>

\* lines 132, 138: the test of the loop fails and dispose() returns
DisposeReturn ==
  /\ stack # << >>
  /\ stack[1].fn = "dispose"
  /\ stack[1].pc = "loop"
  /\ Len(instances[stack[1].this]._disposables) = 0
  /\ stack' = Tail(stack)
  /\ UNCHANGED <<globalState, currentPanel, instances, webviewPanels, cmd, hostCalls, random>>

\* lines 36-45, 94-124: the host resolves a panel it kept, between two runs
\* of dispose(); the log goes on
ReviveBetween(h, _state) ==
  /\ stack = << >>
  /\ webviewPanels[h].state = "serialized"
  /\ LET inst == GraphiqlPanel(h, globalState)
     IN  /\ webviewPanels' = [webviewPanels EXCEPT ![h] = ConstructedPanel(inst, random)]
         /\ random' = NonceTable[random].random
         /\ instances' = Put(instances, h, inst)
         /\ currentPanel' = h
         /\ hostCalls' = hostCalls \o
                           <<Call("html", h, ConstructedPanel(inst, random).html.url, "")>>
  /\ UNCHANGED <<globalState, cmd, stack>>

DisposeNext ==
  \/ \E p \in DOMAIN instances : UserCloses(p)
  \/ \E p \in DOMAIN instances : CallDispose(p)
  \/ DisposeClear
  \/ DisposePanel
  \/ DisposeLoopPop
  \/ DisposeReturn
  \/ \E h \in Handles, _state \in SavedStates : ReviveBetween(h, _state)

SpecDispose == DisposeInit /\ [][DisposeNext]_vars

(* ------------------------ properties of the code ---------------------- *)

\* the endpoint under the key, as a reader with the handler's default sees it
Stored == MementoGet(globalState, GLOBAL_STATE_ENDPOINT_KEY, EMPTY)

\* the handler that ran last stored an endpoint: a resolution succeeded
Succeeded(calls) == CallsOf(calls, "update") # {}

\* the step ends invocation c
Ends(c) == c \in BagToSet(cmd) /\ cmd' = cmd (-) SetToBag({c})

\* instance h shows endpoint e: in its field and in the document of its panel
Renders(h, e) ==
  /\ h \in DOMAIN instances
  /\ instances[h]._graphqlEnpoint = e
  /\ webviewPanels[instances[h]._panel].html.url = <<"'">> \o e \o <<"'">>

\* C1: at most one live (constructed, not disposed) instance exists at any
\* time, also when a revive arrives while an instance is current.
C1_AtMostOneLive == Cardinality(Live) <= 1

\* C2: while the singleton is set, a successful open command constructs
\* nothing: instances and host panels stay as they are, a count of one live
\* instance stays one, the singleton keeps its instance, and the only panel
\* call is one reveal of the current instance's panel.
C2_OpenIdempotent ==
  [][ (currentPanel # 0 /\ Succeeded(hostCalls')) =>
        /\ instances' = instances
        /\ webviewPanels' = webviewPanels
        /\ currentPanel' = currentPanel
        /\ Cardinality(Live) = 1 => Cardinality(Live') = 1
        /\ CallsOf(hostCalls', "createWebviewPanel") = {}
        /\ Cardinality(CallsOf(hostCalls', "reveal")) = 1
        /\ \A k \in CallsOf(hostCalls', "reveal") :
             hostCalls'[k].panel = instances[currentPanel]._panel ]_vars

C2_Witness ==
  /\ Succeeded(hostCalls)
  /\ CallsOf(hostCalls, "reveal") # {}
  /\ Cardinality(Live) = 1
  /\ currentPanel \in Live

\* C3: a dismissed quick pick or input box ends the command with exactly one
\* error notification and nothing else: no other host call, no panel
\* constructed or revealed, the singleton and the stored endpoint unchanged.
C3_CancelOnlyNotifies ==
  [][ \A c \in BagToSet(cmd) :
        (PickDismiss(c) \/ InputDismiss(c)) =>
          /\ Len(hostCalls') = 1
          /\ hostCalls'[1] = Call("showErrorMessage", 0, EMPTY, CANNOT_OPEN)
          /\ Ends(c)
          /\ UNCHANGED <<random, globalState, currentPanel, instances, webviewPanels>> ]_vars

C3_Witness ==
  /\ hostCalls = <<Call("showErrorMessage", 0, EMPTY, CANNOT_OPEN)>>
  /\ currentPanel # 0
  /\ Stored # EMPTY

\* C4: every endpoint that the open command stores and opens the panel with
\* parses as a URL.
C4_StoredParses ==
  [][ \A k \in CallsOf(hostCalls', "update") : URLParse(hostCalls'[k].value).ok ]_vars

\* C5: the input box accepts a text if and only if it parses as a URL; a
\* rejected text gets the inline message and changes nothing; an accepted
\* text is stored exactly as it was typed.
C5_InputAcceptedIffParses ==
  [][ \A c \in Waiting("input"), text \in Inputs :
        /\ InputAccept(c, text) =>
             /\ URLParse(text).ok
             /\ Stored' = text
             /\ \E k \in CallsOf(hostCalls', "update") : hostCalls'[k].value = text
        /\ InputReject(c, text) =>
             /\ ~ URLParse(text).ok
             /\ hostCalls' = <<Call("validateInput", 0, text, INVALID_URL)>>
             /\ UNCHANGED <<random, globalState, currentPanel, instances, webviewPanels, cmd>> ]_vars

C5_Witness ==
  /\ Stored = URL_B
  /\ \E k \in CallsOf(hostCalls, "update") : hostCalls[k].value = URL_B
  /\ \E h \in DOMAIN instances : Renders(h, URL_B)

\* C6: an invocation that found no stored endpoint never succeeds straight
\* from the quick pick: it succeeds only through the input box.
C6_EmptyGoesThroughInput ==
  [][ \A c \in BagToSet(cmd) :
        (c.pc = "pick" /\ c.lastUsedEndpoint = EMPTY /\ Ends(c)) =>
          ~ Succeeded(hostCalls') ]_vars

\* C7: a step that disposes a panel leaves the singleton unset; the
\* singleton never refers to a disposed panel; a successful open command that
\* finds the singleton unset makes a new instance around a handle that did
\* not exist before; and every reveal is of a panel that is open.
C7_CloseThenFresh ==
  /\ [][ (\E h \in Handles : /\ webviewPanels[h].state = "open"
                             /\ webviewPanels'[h].state = "disposed")
           => currentPanel' = 0 ]_vars
  /\ [](currentPanel # 0 => currentPanel \in Live)
  /\ [][ (currentPanel = 0 /\ Succeeded(hostCalls')) =>
           /\ currentPanel' \in Handles
           /\ webviewPanels[currentPanel'].state = "unused"
           /\ webviewPanels'[currentPanel'].state = "open"
           /\ currentPanel' \notin DOMAIN instances
           /\ currentPanel' \in DOMAIN instances'
           /\ instances'[currentPanel']._panel = currentPanel'
           /\ CallsOf(hostCalls', "reveal") = {} ]_vars
  /\ [][ \A k \in CallsOf(hostCalls', "reveal") :
           webviewPanels[hostCalls'[k].panel].state = "open" ]_vars

C7_Witness ==
  /\ \E h \in Handles : webviewPanels[h].state = "disposed"
  /\ CallsOf(hostCalls, "createWebviewPanel") # {}
  /\ currentPanel \in Live

\* C8: when an open command constructs a panel, the instance and its
\* document hold the endpoint chosen in that invocation, whatever other
\* invocations are pending or have stored in between.
C8_NewPanelShowsChosen ==
  [][ \A c \in BagToSet(cmd) :
        /\ \A text \in Inputs :
             (currentPanel = 0 /\ InputAccept(c, text)) =>
               /\ CallsOf(hostCalls', "createWebviewPanel") # {}
               /\ Renders(currentPanel, text)'
        /\ \A k \in 1..2 :
             (currentPanel = 0 /\ QuickPickItems(c)[k] # ENTER_NEW /\ PickItem(c, k)) =>
               /\ CallsOf(hostCalls', "createWebviewPanel") # {}
               /\ Renders(currentPanel, QuickPickItems(c)[k])' ]_vars

C8_Witness ==
  /\ CallsOf(hostCalls, "createWebviewPanel") # {}
  /\ currentPanel # 0
  /\ \E c \in BagToSet(cmd) :
       /\ c.pc = "pick"
       /\ c.lastUsedEndpoint # EMPTY
       /\ ~ Renders(currentPanel, c.lastUsedEndpoint)

\* C9: once the stored endpoint is non-empty it is non-empty in every later
\* state.
C9_NeverEmptied == [][ Stored # EMPTY => Stored' # EMPTY ]_vars

\* C10: the stored endpoint is the one of the last successful resolution;
\* every invocation started then is offered exactly "Enter new endpoint" and
\* that endpoint; and choosing the offered endpoint ends the invocation with
\* that endpoint stored and no input box shown.
C10_RoundTrip ==
  /\ [][ /\ \A k \in CallsOf(hostCalls', "update") : Stored' = hostCalls'[k].value
         /\ ~ Succeeded(hostCalls') => Stored' = Stored ]_vars
  /\ [][ StartCommand =>
           /\ hostCalls' = << Call("showQuickPick", 0, ENTER_NEW, ""),
                              Call("showQuickPick", 0, Stored, "") >>
           /\ cmd' = cmd (+) SetToBag({Pending("pick", Stored)}) ]_vars
  /\ [][ \A c \in BagToSet(cmd) :
           (c.pc = "pick" /\ c.lastUsedEndpoint # ENTER_NEW /\ PickItem(c, 2)) =>
             /\ Ends(c)
             /\ Stored' = c.lastUsedEndpoint
             /\ CallsOf(hostCalls', "showInputBox") = {} ]_vars

C10_Witness ==
  /\ Stored = URL_B
  /\ Pending("pick", URL_B) \in BagToSet(cmd)
  /\ hostCalls = << Call("showQuickPick", 0, ENTER_NEW, ""),
                    Call("showQuickPick", 0, URL_B, "") >>

\* C11: revive wraps the handle the host supplies, makes the new instance
\* the singleton, and renders the endpoint stored at that moment, whatever
\* state the webview had saved; the stored endpoint is not changed.
C11_ReviveRendersStored ==
  [][ \A h \in Handles, _state \in SavedStates :
        Revive(h, _state) =>
          /\ webviewPanels[h].state = "serialized"
          /\ currentPanel' = h
          /\ h \in DOMAIN instances'
          /\ instances'[h]._panel = h
          /\ Renders(h, Stored)'
          /\ Stored' = Stored
          /\ hostCalls' = <<Call("html", h, <<"'">> \o Stored \o <<"'">>, "")>> ]_vars

C11_Witness ==
  /\ currentPanel # 0
  /\ Len(hostCalls) = 1
  /\ hostCalls[1].api = "html"
  /\ hostCalls[1].panel = currentPanel
  /\ Stored = URL_B
  /\ Renders(currentPanel, URL_B)

\* C12: a message with the command "alert" makes exactly one error
\* notification with the text of the message; a message with another command
\* makes none; neither changes the singleton, the instances, the panels and
\* their documents, the pending invocations or the stored endpoint.
C12_MessageOnlyNotifies ==
  [][ \A p \in DOMAIN instances, message \in Messages :
        ReceiveMessage(p, message) =>
          /\ message.command = "alert" =>
               hostCalls' = <<Call("showErrorMessage", 0, EMPTY, message.text)>>
          /\ message.command # "alert" => hostCalls' = << >>
          /\ UNCHANGED <<globalState, currentPanel, instances, webviewPanels, cmd>> ]_vars

C12_Witness ==
  /\ hostCalls = <<Call("showErrorMessage", 0, EMPTY, "boom")>>
  /\ currentPanel \in Live
  /\ cmd # EmptyBag

\* C13: a successful open command that finds the singleton set leaves the
\* current instance's endpoint and its panel's title and document as they
\* are and sets no document, also when it stored another endpoint.
C13_ShowKeepsContent ==
  [][ (currentPanel # 0 /\ Succeeded(hostCalls')) =>
        /\ currentPanel \in DOMAIN instances'
        /\ instances'[currentPanel]._graphqlEnpoint = instances[currentPanel]._graphqlEnpoint
        /\ webviewPanels'[instances[currentPanel]._panel]
             = webviewPanels[instances[currentPanel]._panel]
        /\ CallsOf(hostCalls', "html") = {} ]_vars

C13_Witness ==
  /\ Succeeded(hostCalls)
  /\ CallsOf(hostCalls, "reveal") # {}
  /\ currentPanel \in Live
  /\ Stored \in {URL_A, URL_B}
  /\ instances[currentPanel]._graphqlEnpoint \in {URL_A, URL_B}
  /\ ~ Renders(currentPanel, Stored)

\* a step in which the host hands a kept panel to revive
RevivesSome == \E h \in Handles : /\ webviewPanels[h].state = "serialized"
                                  /\ webviewPanels'[h].state = "open"
                                  /\ currentPanel' = h

\* C16: the singleton changes only from unset to a panel created in that
\* step by a successful open command, to a panel revived in that step, or
\* from set to unset in a step that disposes a panel.
C16_SingletonTransitions ==
  [][ currentPanel' # currentPanel =>
        \/ /\ currentPanel = 0
           /\ Succeeded(hostCalls')
           /\ \E k \in CallsOf(hostCalls', "createWebviewPanel") :
                hostCalls'[k].panel = currentPanel'
        \/ RevivesSome
        \/ /\ currentPanel # 0
           /\ currentPanel' = 0
           /\ CallsOf(hostCalls', "dispose") # {} ]_vars

C16_Witness ==
  /\ currentPanel = 0
  /\ CallsOf(hostCalls, "dispose") # {}
  /\ cmd # EmptyBag

C18_SingletonTracksLive == Live # {} => currentPanel \in Live

\* the two ways an invocation ends
CancelledOutcome ==
  /\ Cardinality(CallsOf(hostCalls', "showErrorMessage")) = 1
  /\ CallsOf(hostCalls', "update") = {}
  /\ CallsOf(hostCalls', "createWebviewPanel") \cup CallsOf(hostCalls', "reveal") = {}

OpenedOutcome ==
  /\ CallsOf(hostCalls', "showErrorMessage") = {}
  /\ Cardinality(CallsOf(hostCalls', "update")) = 1
  /\ \E k \in CallsOf(hostCalls', "createWebviewPanel") \cup CallsOf(hostCalls', "reveal") :
       \A u \in CallsOf(hostCalls', "update") : u < k
  /\ currentPanel' \in Live'

\* C19: the bag of pending invocations changes only when one starts, when
\* one passes from the quick pick to the input box, or when one ends; an
\* invocation ends either with one error notification and no store and no
\* panel call, or with one store followed in the same step by createOrShow,
\* after which the singleton refers to a live instance; and an endpoint is
\* stored only in a step that ends an invocation.
C19_EndsOneWay ==
  [][ /\ cmd' # cmd =>
           \/ cmd' = cmd (+) SetToBag({Pending("pick", Stored)})
           \/ \E c \in Waiting("pick") :
                /\ cmd' = (cmd (-) SetToBag({c})) (+) SetToBag({Pending("input", EMPTY)})
                /\ hostCalls' = <<Call("showInputBox", 0, EMPTY, "")>>
           \/ \E c \in BagToSet(cmd) :
                /\ Ends(c)
                /\ (CancelledOutcome /\ ~ OpenedOutcome) \/ (OpenedOutcome /\ ~ CancelledOutcome)
      /\ Succeeded(hostCalls') => BagCardinality(cmd') = BagCardinality(cmd) - 1 ]_vars

C19_Witness ==
  /\ cmd = EmptyBag
  /\ Succeeded(hostCalls)
  /\ currentPanel \in Live
  /\ Stored = URL_A

\* the subscriptions of instance p released so far, in the order of release
Releases(p) ==
  LET Released(c) == c.api = "release" /\ c.panel = instances[p]._panel
      calls == SelectSeq(hostCalls, Released)
  IN  [k \in DOMAIN calls |-> calls[k].text]

\* the calls of WebviewPanel.dispose that dispose() of instance p made
PanelDisposals(p) ==
  {k \in CallsOf(hostCalls, "dispose") : hostCalls[k].panel = instances[p]._panel}

\* the registrations of lines 110 and 113, in the order of registration
Registered == GraphiqlPanel(0, << >>)._disposables

\* s is the beginning of t
IsPrefix(s, t) == Len(s) <= Len(t) /\ SubSeq(t, 1, Len(s)) = s

\* t in reverse order
RECURSIVE Reverse(_)
Reverse(t) == IF t = << >> THEN << >> ELSE Reverse(Tail(t)) \o <<Head(t)>>

\* the teardown of instance p is complete
TornDown(p) ==
  /\ webviewPanels[instances[p]._panel].state = "disposed"
  /\ instances[p]._disposables = << >>

\* C14: a run of dispose() that is past line 127 has cleared currentPanel, one
\* that is in the loop has disposed the panel handle; the subscriptions of an
\* instance are released after the first call of the handle's dispose and in
\* reverse order of registration (the message listener first); each round of
\* the loop takes one subscription from the array (so the loop ends), at most
\* two activations are on the stack, and when dispose() has returned the
\* array is empty, both subscriptions are released and the panel is disposed.
C14_DisposeReleasesInReverse ==
  /\ Registered = <<"onDidDispose", "onDidReceiveMessage">>
  /\ Len(stack) <= 2
  /\ \A k \in DOMAIN stack :
       (stack[k].fn = "dispose") =>
         /\ (stack[k].pc # "clear") => currentPanel = 0
         /\ (stack[k].pc = "loop") =>
              /\ webviewPanels[instances[stack[k].this]._panel].state = "disposed"
              /\ PanelDisposals(stack[k].this) # {}
  /\ \A p \in DOMAIN instances :
       /\ IsPrefix(Releases(p), Reverse(Registered))
       /\ instances[p]._disposables \o Reverse(Releases(p)) = Registered
       /\ \A k \in DOMAIN hostCalls :
            (hostCalls[k].api = "release" /\ hostCalls[k].panel = instances[p]._panel) =>
              \E j \in PanelDisposals(p) : j < k
       /\ (stack = << >> /\ PanelDisposals(p) # {}) =>
            /\ TornDown(p)
            /\ Releases(p) = <<"onDidReceiveMessage", "onDidDispose">>

C14_Witness ==
  /\ stack = << >>
  /\ \E p \in DOMAIN instances :
       /\ Cardinality(PanelDisposals(p)) = 1
       /\ Releases(p) = <<"onDidReceiveMessage", "onDidDispose">>
       /\ instances[p]._disposables = << >>
       /\ currentPanel = 0

\* a step of a run of dispose() on an instance whose teardown is complete
LaterRunStep ==
  /\ stack # << >>
  /\ stack[1].fn = "dispose"
  /\ TornDown(stack[1].this)

\* C15: however often and however nested dispose() runs on an instance, no
\* subscription is released twice, and when no run is in progress an instance
\* that dispose() ran on has each of its subscriptions released exactly once;
\* a step of a run on an instance whose teardown is complete (a repeated
\* call, or the outer run after a re-entrant one) releases nothing and leaves
\* the instances, the host panels and the stored endpoint as they are: all it
\* does is to assign undefined to currentPanel, as the first run did.
C15_TeardownIdempotent ==
  /\ [](\A p \in DOMAIN instances :
          /\ \A j, k \in DOMAIN Releases(p) : Releases(p)[j] = Releases(p)[k] => j = k
          /\ (stack = << >> /\ PanelDisposals(p) # {}) =>
               \A l \in Range(Registered) :
                 Cardinality({k \in DOMAIN Releases(p) : Releases(p)[k] = l}) = 1)
  /\ [][LaterRunStep =>
          /\ instances' = instances
          /\ webviewPanels' = webviewPanels
          /\ globalState' = globalState
          /\ CallsOf(hostCalls', "release") = CallsOf(hostCalls, "release")
          /\ currentPanel' \in {currentPanel, 0}]_vars

\* dispose() ran at least three times on one instance, repeated or nested, and
\* has returned
C15_Witness ==
  /\ stack = << >>
  /\ \E p \in DOMAIN instances :
       /\ Cardinality(PanelDisposals(p)) >= 3
       /\ Releases(p) = <<"onDidReceiveMessage", "onDidDispose">>

\* C20: while getNonce runs, its text has one character of the 62 per round
\* made and at most 32 rounds are made; the loop is left after 32 rounds; and
\* the document that is set has a nonce of exactly 32 characters of the 62 in
\* its content security policy and the same nonce on each of its four script
\* tags.
C20_NonceOfRender ==
  /\ \A k \in DOMAIN stack :
       (stack[k].fn = "getNonce") =>
         /\ stack[k].i \in 0..NONCE_LENGTH
         /\ Len(stack[k].text) = stack[k].i
         /\ Range(stack[k].text) \subseteq Range(possible)
  /\ \A h \in Handles :
       (webviewPanels[h].state = "open" /\ webviewPanels[h].html # NoHtml) =>
         /\ Len(webviewPanels[h].html.csp) = 32
         /\ Range(webviewPanels[h].html.csp) \subseteq Alpha \cup Digit
         /\ Cardinality(Alpha \cup Digit) = 62
         /\ Len(webviewPanels[h].html.scripts) = 4
         /\ \A k \in DOMAIN webviewPanels[h].html.scripts :
              webviewPanels[h].html.scripts[k] = webviewPanels[h].html.csp

C20_Witness ==
  /\ stack = << >>
  /\ \E h \in Handles :
       /\ webviewPanels[h].state = "open"
       /\ Len(webviewPanels[h].html.csp) = 32
       /\ {"A", "9"} \subseteq Range(webviewPanels[h].html.csp)

====
